---- MODULE Spec2Model ----
\* A model of package authrootstl (src/ctl.go): the decoder of Microsoft's
\* authroot.stl, a PKCS#7 SignedData envelope holding a Certificate Trust List.
\*
\* A cryptobyte.String is a Go slice: a window [lo, hi) on a backing array.
\* The model keeps the backing array in the variable mem and every String as
\* a record [lo, hi] of 0-based offsets into it, so that a prefix der[:k]
\* shares its bytes with der, and a []byte(spki) conversion shares its bytes
\* with the input, as they do in Go.
\*
\* Integers that can exceed the range of a machine word (the sequence number,
\* an out-of-range version) are kept as sign and magnitude, the magnitude a
\* big-endian sequence of base-256 digits without leading zeros.
EXTENDS Integers, Sequences, FiniteSets, TLC

VARIABLES mem, entry, src, whole, cut, part, reused

vars == <<mem, entry, src, whole, cut, part, reused>>

\* ---------------------------------------------------------------- helpers

Max(a, b) == IF a >= b THEN a ELSE b

MaxOf(S) == CHOOSE m \in S : \A x \in S : x <= m

RECURSIVE Flatten(_)
Flatten(ss) == IF ss = <<>> THEN <<>> ELSE Head(ss) \o Flatten(Tail(ss))

\* ------------------------------------------------ cryptobyte.String (slice)

\* len(s)
SLen(s) == s.hi - s.lo

\* s[i] for 0 <= i < len(s)
At(mem_, s, i) == mem_[s.lo + i + 1]

\* the bytes seen through the slice s
Bytes(mem_, s) == SubSeq(mem_, s.lo + 1, s.hi)

\* String.Empty
Empty(s) == SLen(s) = 0

\* ---------------------------------------------------------------- ASN.1 tags

TagBOOLEAN == 1
TagINTEGER == 2
TagOCTET_STRING == 4
TagOBJECT_IDENTIFIER == 6
TagUTCTime == 23
TagSEQUENCE == 48
TagSET == 49
\* cryptobyte_asn1.Tag(0).Constructed().ContextSpecific()
TagContext0 == 160

\* A length at or above LenCap exceeds every buffer of the model; the 32-bit
\* length of the long form is accumulated up to this cap.
LenCap == 65536

\* ----------------------------------------------------- String.readUnsigned

RECURSIVE readUnsigned(_, _, _, _)
\* the big-endian value of mem[lo .. lo+n), saturating at LenCap
readUnsigned(mem_, lo, n, acc) ==
    IF n = 0 THEN acc
    ELSE LET v == acc * 256 + mem_[lo + 1]
         IN readUnsigned(mem_, lo + 1, n - 1, IF v >= LenCap THEN LenCap ELSE v)

\* ---------------------------------------------------------- String.ReadBytes

\* A bug the code does not have: the length is checked against the capacity of
\* the slice (the end of the backing array) and not against its length.
ReadBytesUnchecked(mem_, s, n) == n <= Len(mem_) - s.lo

\* String.ReadBytes / String.read: whether n bytes are available in s
ReadBytes(mem_, s, n) == n <= SLen(s)

\* ----------------------------------------------------------- String.readASN1

ReadFail(s, reach) ==
    [ok |-> FALSE, tag |-> -1, elem |-> s, body |-> s, rest |-> s, reach |-> reach]

\* One element read from the front of s: its tag, the element with its header
\* (elem), its contents (body), the cursor after it (rest), and reach, the
\* end of the bytes of mem the read has looked at or handed out.
readASN1(mem_, s) ==
    IF SLen(s) < 2 THEN ReadFail(s, 0)
    ELSE
    LET tag == At(mem_, s, 0)
        lenByte == At(mem_, s, 1)
    IN  IF tag % 32 = 31 THEN ReadFail(s, s.lo + 2)
        ELSE IF lenByte < 128 THEN
            LET length == lenByte + 2
            IN  IF ~ReadBytes(mem_, s, length) THEN ReadFail(s, s.lo + 2)
                ELSE [ok |-> TRUE, tag |-> tag,
                      elem |-> [lo |-> s.lo, hi |-> s.lo + length],
                      body |-> [lo |-> s.lo + 2, hi |-> s.lo + length],
                      rest |-> [lo |-> s.lo + length, hi |-> s.hi],
                      reach |-> s.lo + length]
        ELSE
            LET lenLen == lenByte % 128
            IN  IF lenLen = 0 \/ lenLen > 4 \/ SLen(s) < 2 + lenLen
                THEN ReadFail(s, s.lo + 2)
                ELSE
                LET len32 == readUnsigned(mem_, s.lo + 2, lenLen, 0)
                    headerLen == 2 + lenLen
                    length == headerLen + len32
                IN  IF len32 < 128 \/ At(mem_, s, 2) = 0
                    THEN ReadFail(s, s.lo + headerLen)
                    ELSE IF ~ReadBytes(mem_, s, length)
                    THEN ReadFail(s, s.lo + headerLen)
                    ELSE [ok |-> TRUE, tag |-> tag,
                          elem |-> [lo |-> s.lo, hi |-> s.lo + length],
                          body |-> [lo |-> s.lo + headerLen, hi |-> s.lo + length],
                          rest |-> [lo |-> s.lo + length, hi |-> s.hi],
                          reach |-> s.lo + length]

\* String.ReadASN1 / ReadASN1Element / SkipASN1: the element is read, then its
\* tag compared; on a mismatch the call fails.
ReadASN1(mem_, s, tag) ==
    LET r == readASN1(mem_, s)
    IN  IF r.ok /\ r.tag # tag THEN [r EXCEPT !.ok = FALSE] ELSE r

\* String.PeekASN1Tag
PeekASN1Tag(mem_, s, tag) == SLen(s) > 0 /\ At(mem_, s, 0) = tag

\* String.ReadOptionalASN1 and SkipOptionalASN1: nothing is read when the next
\* tag is another one (present = FALSE).
ReadOptionalASN1(mem_, s, tag) ==
    IF PeekASN1Tag(mem_, s, tag)
    THEN [present |-> TRUE, r |-> ReadASN1(mem_, s, tag)]
    ELSE [present |-> FALSE,
          r |-> [ok |-> TRUE, tag |-> -1, elem |-> s, body |-> s, rest |-> s,
                 reach |-> IF SLen(s) > 0 THEN s.lo + 1 ELSE 0]]

\* ------------------------------------------------------- big integers

Zero == [neg |-> FALSE, mag |-> <<>>]

RECURSIVE StripZeros(_)
StripZeros(b) == IF b # <<>> /\ Head(b) = 0 THEN StripZeros(Tail(b)) ELSE b

Invert(b) == [i \in 1..Len(b) |-> 255 - b[i]]

RECURSIVE AddOne(_)
\* b + 1 for a big-endian magnitude b
AddOne(b) ==
    IF b = <<>> THEN <<1>>
    ELSE IF b[Len(b)] = 255 THEN AddOne(SubSeq(b, 1, Len(b) - 1)) \o <<0>>
    ELSE SubSeq(b, 1, Len(b) - 1) \o <<b[Len(b)] + 1>>

\* big.Int.SetBytes: the magnitude of a big-endian byte string
SetBytes(b) == StripZeros(b)

\* checkASN1Integer: at least one octet, minimally encoded
checkASN1Integer(b) ==
    /\ Len(b) > 0
    /\ Len(b) = 1 \/ ~(\/ b[1] = 0 /\ b[2] < 128
                       \/ b[1] = 255 /\ b[2] >= 128)

\* The value of a two's-complement big-endian byte string, as readASN1BigInt
\* computes it: a negative number is inverted, incremented and negated.
TwosComplement(b) ==
    IF b[1] >= 128
    THEN [neg |-> TRUE, mag |-> StripZeros(AddOne(SetBytes(Invert(b))))]
    ELSE [neg |-> FALSE, mag |-> SetBytes(b)]

ValFail(r) == [ok |-> FALSE, val |-> Zero, rest |-> r.rest, reach |-> r.reach]

\* String.readASN1BigInt, for ReadASN1Integer(out *big.Int)
readASN1BigInt(mem_, s) ==
    LET Value(r, b) ==
            IF ~r.ok \/ ~checkASN1Integer(b) THEN ValFail(r)
            ELSE [ok |-> TRUE, val |-> TwosComplement(b), rest |-> r.rest,
                  reach |-> r.reach]
        Element(r) == Value(r, Bytes(mem_, r.body))
    IN  Element(ReadASN1(mem_, s, TagINTEGER))

\* A bug the code does not have: every value that fits 64 bits is accepted.
OverflowInt32Never(v) == FALSE

\* reflect.Value.OverflowInt for an int32: v is outside [-2^31, 2^31-1]
OverflowInt32(v) ==
    \/ Len(v.mag) > 4
    \/ /\ Len(v.mag) = 4
       /\ v.mag[1] >= 128
       /\ ~(v.neg /\ v.mag = <<128, 0, 0, 0>>)

\* asn1Signed: at most 8 octets, shifted in and sign-extended to 64 bits
asn1Signed(b) ==
    IF Len(b) > 8 THEN [ok |-> FALSE, val |-> Zero]
    ELSE [ok |-> TRUE, val |-> TwosComplement(b)]

\* String.readASN1Int64
readASN1Int64(mem_, s) ==
    LET Signed(r, i) ==
            IF ~i.ok THEN ValFail(r)
            ELSE [ok |-> TRUE, val |-> i.val, rest |-> r.rest, reach |-> r.reach]
        Value(r, b) ==
            IF ~r.ok \/ ~checkASN1Integer(b) THEN ValFail(r)
            ELSE Signed(r, asn1Signed(b))
        Element(r) == Value(r, Bytes(mem_, r.body))
    IN  Element(ReadASN1(mem_, s, TagINTEGER))

\* ReadASN1Integer(out *int32): readASN1Int64, then the overflow check
ReadASN1Int32(mem_, s) ==
    LET Checked(i) == IF i.ok /\ OverflowInt32(i.val) THEN ValFail(i) ELSE i
    IN  Checked(readASN1Int64(mem_, s))

\* ------------------------------------------------------- object identifiers

RECURSIVE readBase128Int(_, _, _)
\* String.readBase128Int on the byte string b: one base-128 integer of at most
\* 4 bytes below 2^28, not starting with 0x80; the remaining bytes in rest.
readBase128Int(b, i, ret) ==
    IF b = <<>> \/ i = 5 \/ ret >= 16777216 \/ (i = 0 /\ b[1] = 128)
    THEN [ok |-> FALSE, v |-> 0, rest |-> b]
    ELSE IF b[1] < 128
    THEN [ok |-> TRUE, v |-> ret * 128 + b[1], rest |-> Tail(b)]
    ELSE readBase128Int(Tail(b), i + 1, ret * 128 + (b[1] % 128))

RECURSIVE ReadArcs(_)
\* the loop of ReadASN1ObjectIdentifier over the second and later integers
ReadArcs(b) ==
    IF b = <<>> THEN [ok |-> TRUE, arcs |-> <<>>]
    ELSE LET Join(x, more) == [ok |-> more.ok, arcs |-> <<x.v>> \o more.arcs]
             Next(x) == IF ~x.ok THEN [ok |-> FALSE, arcs |-> <<>>]
                        ELSE Join(x, ReadArcs(x.rest))
         IN  Next(readBase128Int(b, 0, 0))

\* String.ReadASN1ObjectIdentifier
ReadASN1ObjectIdentifier(mem_, s) ==
    LET Bad(r) == [ok |-> FALSE, val |-> <<>>, rest |-> r.rest, reach |-> r.reach]
        Arcs(r, first, more) ==
            IF ~more.ok THEN Bad(r)
            ELSE [ok |-> TRUE,
                  val |-> (IF first.v < 80
                           THEN <<first.v \div 40, first.v % 40>>
                           ELSE <<2, first.v - 80>>) \o more.arcs,
                  rest |-> r.rest, reach |-> r.reach]
        First(r, first) ==
            IF ~first.ok THEN Bad(r) ELSE Arcs(r, first, ReadArcs(first.rest))
        Value(r, b) ==
            IF ~r.ok \/ Len(b) = 0 THEN Bad(r) ELSE First(r, readBase128Int(b, 0, 0))
        Element(r) == Value(r, Bytes(mem_, r.body))
    IN  Element(ReadASN1(mem_, s, TagOBJECT_IDENTIFIER))

\* asn1.ObjectIdentifier{1, 3, 6, 1, 4, 1, 311, 10, 3, 52}
OidCTLogs == <<1, 3, 6, 1, 4, 1, 311, 10, 3, 52>>

\* ---------------------------------------------------------------- UTCTime

IsDigit(c) == c >= 48 /\ c <= 57

\* the number written by the two ASCII digits b[i], b[i+1]
Num2(b, i) == (b[i] - 48) * 10 + (b[i + 1] - 48)

\* time.daysIn; every year of a UTCTime lies in 1969..2068, where the leap
\* years are the multiples of 4
DaysIn(month, year) ==
    IF month = 2 THEN (IF year % 4 = 0 THEN 29 ELSE 28)
    ELSE IF month \in {4, 6, 9, 11} THEN 30 ELSE 31

NoTime == [year |-> 0, month |-> 0, day |-> 0, hour |-> 0, min |-> 0, sec |-> 0, zone |-> 0]

\* ReadASN1UTCTime: "UTCTime interprets the low order digits 50-99 as 1950-99"
Century(year) == IF year >= 2050 THEN year - 100 ELSE year

\* time.Parse's reading of the two-digit year: 69-99 are 1969-1999
ParseYear(yy) == IF yy >= 69 THEN 1900 + yy ELSE 2000 + yy

\* The zone of a UTCTime whose bytes from z on are the zone: "Z", or a numeric
\* zone +hhmm / -hhmm with hh <= 24 and mm < 60 and not zero (a zero offset is
\* formatted as "Z", which differs from the input). min is the offset in minutes.
ParseZone(b, z) ==
    IF Len(b) = z /\ b[z] = 90 THEN [ok |-> TRUE, min |-> 0]
    ELSE IF /\ Len(b) = z + 4
            /\ b[z] \in {43, 45}
            /\ \A i \in (z + 1)..(z + 4) : IsDigit(b[i])
            /\ Num2(b, z + 1) <= 24
            /\ Num2(b, z + 3) < 60
            /\ Num2(b, z + 1) * 60 + Num2(b, z + 3) # 0
    THEN [ok |-> TRUE,
          min |-> (IF b[z] = 45 THEN -1 ELSE 1) * (Num2(b, z + 1) * 60 + Num2(b, z + 3))]
    ELSE [ok |-> FALSE, min |-> 0]

\* time.Parse with the layout "060102150405Z0700", or "0601021504Z0700" when
\* the seconds are missing, followed by the comparison of the re-formatted
\* time with the input: two digits per field, each in its range, then the zone.
ParseUTCTime(b) ==
    IF Len(b) < 11 \/ \E i \in 1..10 : ~IsDigit(b[i])
    THEN [ok |-> FALSE, t |-> NoTime]
    ELSE
    LET hasSec == Len(b) >= 13 /\ IsDigit(b[11]) /\ IsDigit(b[12])
        Fields(year, month, day, hour, min, sec, zone) ==
            IF \/ month < 1 \/ month > 12
               \/ day < 1 \/ day > DaysIn(month, year)
               \/ hour >= 24 \/ min >= 60 \/ sec >= 60
               \/ ~zone.ok
            THEN [ok |-> FALSE, t |-> NoTime]
            ELSE [ok |-> TRUE,
                  t |-> [year |-> Century(year), month |-> month, day |-> day,
                         hour |-> hour, min |-> min, sec |-> sec, zone |-> zone.min]]
    IN  Fields(ParseYear(Num2(b, 1)), Num2(b, 3), Num2(b, 5), Num2(b, 7), Num2(b, 9),
               IF hasSec THEN Num2(b, 11) ELSE 0,
               ParseZone(b, IF hasSec THEN 13 ELSE 11))

\* String.ReadASN1UTCTime
ReadASN1UTCTime(mem_, s) ==
    LET Parsed(r, p) ==
            IF ~r.ok \/ ~p.ok
            THEN [ok |-> FALSE, val |-> NoTime, rest |-> r.rest, reach |-> r.reach]
            ELSE [ok |-> TRUE, val |-> p.t, rest |-> r.rest, reach |-> r.reach]
        Element(r) == Parsed(r, ParseUTCTime(Bytes(mem_, r.body)))
    IN  Element(ReadASN1(mem_, s, TagUTCTime))

\* ---------------------------------------------------------------- parseCTLogs
\* Each decoder is written as a chain of operators, one per read: the operator
\* named after a read takes the result of that read and does what the code
\* does after it, down to the next read.

\* A bug the code does not have: bytes after the outer SEQUENCE are accepted.
LogsTrailingIgnored(der) == FALSE

\* ctl.go:164, "trailing bytes after SEQUENCE" in parseCTLogs
LogsTrailing(der) == ~Empty(der)

\* A bug the code does not have: ReadASN1 in place of ReadASN1Element, which
\* keeps the contents of the SPKI without its tag and length.
SpkiContents(r) == r.body

\* ctl.go:182-185: the raw element, tag and length included; []byte(spki) is a
\* conversion, the slice keeps pointing into the buffer it was read from
Spki(r) == r.elem

RECURSIVE versionLoop(_, _, _, _)
\* ctl.go:172-178
versionLoop(mem_, versionSequence, version, reach) ==
    IF Empty(versionSequence)
    THEN [ok |-> TRUE, version |-> version, reach |-> reach]
    ELSE LET Integer(i) ==
                 IF ~i.ok
                 THEN [ok |-> FALSE, version |-> <<>>, reach |-> Max(reach, i.reach)]
                 ELSE versionLoop(mem_, i.rest, Append(version, i.val),
                                  Max(reach, i.reach))
         IN  Integer(ReadASN1Int32(mem_, versionSequence))

RECURSIVE pubkeyLoop(_, _, _, _)
\* ctl.go:180-186
pubkeyLoop(mem_, sequence, pubkeys, reach) ==
    IF Empty(sequence)
    THEN [ok |-> TRUE, pubkeys |-> pubkeys, reach |-> reach]
    ELSE LET Element(r) ==
                 IF ~r.ok
                 THEN [ok |-> FALSE, pubkeys |-> <<>>, reach |-> Max(reach, r.reach)]
                 ELSE pubkeyLoop(mem_, r.rest, Append(pubkeys, Spki(r)),
                                 Max(reach, r.reach))
         IN  Element(ReadASN1(mem_, sequence, TagSEQUENCE))

LogsErr(msg, reach) ==
    [ok |-> FALSE, err |-> <<msg>>, version |-> <<>>, pubkeys |-> <<>>,
     reach |-> reach, unread |-> 0]

\* ctl.go:183-187, after the loop over the SPKIs
logsPubkeys(r1, v, k) ==
    IF ~k.ok THEN LogsErr("malformed SPKI SEQUENCE", k.reach)
    ELSE [ok |-> TRUE, err |-> <<>>, version |-> v.version, pubkeys |-> k.pubkeys,
          reach |-> k.reach, unread |-> SLen(r1.rest)]

\* ctl.go:175-180, after the loop over the version SEQUENCE
logsVersions(mem_, r1, r2, v) ==
    IF ~v.ok THEN LogsErr("version SEQUENCE contains malformed INTEGER", v.reach)
    ELSE logsPubkeys(r1, v, pubkeyLoop(mem_, r2.rest, <<>>, v.reach))

\* ctl.go:168-172, after the read of the version SEQUENCE
logsVersionSequence(mem_, r1, r2) ==
    IF ~r2.ok THEN LogsErr("malformed version SEQUENCE", Max(r1.reach, r2.reach))
    ELSE logsVersions(mem_, r1, r2,
                      versionLoop(mem_, r2.body, <<>>, Max(r1.reach, r2.reach)))

\* ctl.go:162-168, after the read of the SEQUENCE
logsSequence(mem_, r1) ==
    IF ~r1.ok THEN LogsErr("malformed SEQUENCE", r1.reach)
    ELSE IF LogsTrailing(r1.rest) THEN LogsErr("trailing bytes after SEQUENCE", r1.reach)
    ELSE logsVersionSequence(mem_, r1, ReadASN1(mem_, r1.body, TagSEQUENCE))

\* ctl.go:160-188. unread counts the bytes of der that follow its SEQUENCE
\* when the function returns; the two loops run until their cursor is empty.
parseCTLogs(mem_, der) == logsSequence(mem_, ReadASN1(mem_, der, TagSEQUENCE))

\* ---------------------------------------------------------------- parseCTL

\* type CTL struct, as new(CTL) leaves it
NewCTL ==
    [SequenceNumber |-> Zero, EffectiveDate |-> NoTime,
     CTLogsVersion |-> <<>>, CTLogs |-> <<>>]

\* the nil *CTL returned with an error
NilCTL == [nil |-> TRUE]

\* A bug the code does not have: bytes after the CTL are accepted.
CTLTrailingIgnored(der) == FALSE

\* ctl.go:103, "trailing bytes after SEQUENCE" in parseCTL
CTLTrailing(der) == ~Empty(der)

\* A bug the code does not have: every extension is taken for the CT logs one.
IsCTLogsAny(id) == TRUE

\* ctl.go:147, id.Equal(asn1.ObjectIdentifier{1, 3, 6, 1, 4, 1, 311, 10, 3, 52})
IsCTLogs(id) == id = OidCTLogs

\* A bug the code does not have: the logs of a later extension are appended to
\* those of an earlier one.
StoreCTLogsMerged(ctl, logs) ==
    [ctl EXCEPT !.CTLogsVersion = @ \o logs.version, !.CTLogs = @ \o logs.pubkeys]

\* ctl.go:149: ctl.CTLogsVersion, ctl.CTLogs, err = parseCTLogs(value)
StoreCTLogs(ctl, logs) ==
    [ctl EXCEPT !.CTLogsVersion = logs.version, !.CTLogs = logs.pubkeys]

\* A bug the code does not have: the sequence number is read into an int64.
ReadSequenceNumberInt64(mem_, s) == readASN1Int64(mem_, s)

\* ctl.go:109: sequence.ReadASN1Integer(&ctl.SequenceNumber), a big.Int
ReadSequenceNumber(mem_, s) == readASN1BigInt(mem_, s)

ExtErr(msg, reach) ==
    [ok |-> FALSE, err |-> msg, ctl |-> NilCTL, reach |-> reach,
     slack |-> 0, logsUnread |-> 0]

\* The state of the loop over the extensions (ctl.go:130-154): the cursor
\* extensions, the CTL being filled, reach, and two counts of bytes not read:
\* slack, the bytes of extensions after their OCTET STRING, and logsUnread,
\* the bytes parseCTLogs left unread in the values given to it.
RECURSIVE extensionLoop(_, _)

\* ctl.go:149-152, after parseCTLogs(value)
extCTLogs(mem_, st, e, value, logs) ==
    IF ~logs.ok
    THEN ExtErr(<<"error parsing CT logs extension">> \o logs.err,
                Max(st.reach, logs.reach))
    ELSE extensionLoop(mem_, [extensions |-> e.rest,
                              ctl |-> StoreCTLogs(st.ctl, logs),
                              reach |-> Max(st.reach, logs.reach),
                              slack |-> st.slack + SLen(value.rest),
                              logsUnread |-> st.logsUnread + logs.unread])

\* ctl.go:143-148, after the read of the OCTET STRING
extValue(mem_, st, e, id, value) ==
    IF ~value.ok
    THEN ExtErr(<<"malformed extension OCTET STRING">>, Max(st.reach, value.reach))
    ELSE IF IsCTLogs(id.val)
    THEN extCTLogs(mem_, [st EXCEPT !.reach = Max(@, value.reach)], e, value,
                   parseCTLogs(mem_, value.body))
    ELSE extensionLoop(mem_, [st EXCEPT !.extensions = e.rest,
                                        !.reach = Max(@, value.reach),
                                        !.slack = @ + SLen(value.rest)])

\* ctl.go:139-143, after the optional BOOLEAN
extCritical(mem_, st, e, id, b) ==
    IF ~b.r.ok THEN ExtErr(<<"malformed extension BOOLEAN">>, Max(st.reach, b.r.reach))
    ELSE extValue(mem_, [st EXCEPT !.reach = Max(@, b.r.reach)], e, id,
                  ReadASN1(mem_, b.r.rest, TagOCTET_STRING))

\* ctl.go:136-139, after the read of the OBJECT IDENTIFIER
extId(mem_, st, e, id) ==
    IF ~id.ok
    THEN ExtErr(<<"malformed extension OBJECT IDENTIFIER">>, Max(st.reach, id.reach))
    ELSE extCritical(mem_, [st EXCEPT !.reach = Max(@, id.reach)], e, id,
                     ReadOptionalASN1(mem_, id.rest, TagBOOLEAN))

\* ctl.go:132-136, after the read of the extension's SEQUENCE
extSequence(mem_, st, e) ==
    IF ~e.ok THEN ExtErr(<<"malformed extension SEQUENCE">>, Max(st.reach, e.reach))
    ELSE extId(mem_, [st EXCEPT !.reach = Max(@, e.reach)], e,
               ReadASN1ObjectIdentifier(mem_, e.body))

\* ctl.go:130-154
extensionLoop(mem_, st) ==
    IF Empty(st.extensions)
    THEN [ok |-> TRUE, err |-> <<>>, ctl |-> st.ctl, reach |-> st.reach,
          slack |-> st.slack, logsUnread |-> st.logsUnread]
    ELSE extSequence(mem_, st, ReadASN1(mem_, st.extensions, TagSEQUENCE))

NoUnread == [der |-> 0, body |-> 0, wrapper |-> 0, extension |-> 0, logs |-> 0]

CTLErr(msg, reach) ==
    [ok |-> FALSE, err |-> msg, ctl |-> NilCTL, reach |-> reach, unread |-> NoUnread]

\* ctl.go:130-157, after the loop over the extensions
ctlLoop(r1, o, r8, x) ==
    IF ~x.ok THEN CTLErr(x.err, x.reach)
    ELSE [ok |-> TRUE, err |-> <<>>, ctl |-> x.ctl, reach |-> x.reach,
          unread |-> [der |-> SLen(r1.rest), body |-> SLen(o.r.rest),
                      wrapper |-> SLen(r8.rest), extension |-> x.slack,
                      logs |-> x.logsUnread]]

\* ctl.go:127-130, after the read of the inner extensions SEQUENCE
ctlInner(mem_, r1, ctl, reach, o, r8) ==
    IF ~r8.ok
    THEN CTLErr(<<"malformed inner extensions SEQUENCE">>, Max(reach, r8.reach))
    ELSE ctlLoop(r1, o, r8,
                 extensionLoop(mem_, [extensions |-> r8.body, ctl |-> ctl,
                                      reach |-> Max(reach, r8.reach),
                                      slack |-> 0, logsUnread |-> 0]))

\* ctl.go:123-127 and 157, after the read of the optional [0] block
ctlExtensions(mem_, r1, ctl, reach, o) ==
    IF ~o.r.ok THEN CTLErr(<<"malformed extensions SEQUENCE">>, Max(reach, o.r.reach))
    ELSE IF ~o.present
    THEN [ok |-> TRUE, err |-> <<>>, ctl |-> ctl, reach |-> Max(reach, o.r.reach),
          unread |-> [NoUnread EXCEPT !.der = SLen(r1.rest), !.body = SLen(o.r.rest)]]
    ELSE ctlInner(mem_, r1, ctl, Max(reach, o.r.reach), o,
                  ReadASN1(mem_, o.r.body, TagSEQUENCE))

\* ctl.go:118-123, after the skip of the entries
ctlEntries(mem_, r1, ctl, reach, r6) ==
    IF ~r6.ok THEN CTLErr(<<"malformed entries SEQUENCE">>, Max(reach, r6.reach))
    ELSE ctlExtensions(mem_, r1, ctl, Max(reach, r6.reach),
                       ReadOptionalASN1(mem_, r6.rest, TagContext0))

\* ctl.go:115-118, after the skip of the algorithm identifier
ctlAlgorithm(mem_, r1, ctl, reach, r5) ==
    IF ~r5.ok
    THEN CTLErr(<<"malformed algorithm identifier SEQUENCE">>, Max(reach, r5.reach))
    ELSE ctlEntries(mem_, r1, ctl, Max(reach, r5.reach),
                    ReadASN1(mem_, r5.rest, TagSEQUENCE))

\* ctl.go:112-115, after the read of the effective date
ctlEffectiveDate(mem_, r1, ctl, reach, r4) ==
    IF ~r4.ok THEN CTLErr(<<"malformed effective date UTCTIME">>, Max(reach, r4.reach))
    ELSE ctlAlgorithm(mem_, r1, [ctl EXCEPT !.EffectiveDate = r4.val],
                      Max(reach, r4.reach), ReadASN1(mem_, r4.rest, TagSEQUENCE))

\* ctl.go:109-112, after the read of the sequence number
ctlSequenceNumber(mem_, r1, reach, r3) ==
    IF ~r3.ok THEN CTLErr(<<"malformed sequence number INTEGER">>, Max(reach, r3.reach))
    ELSE ctlEffectiveDate(mem_, r1, [NewCTL EXCEPT !.SequenceNumber = r3.val],
                          Max(reach, r3.reach), ReadASN1UTCTime(mem_, r3.rest))

\* ctl.go:106-109, after the skip of the signers
ctlSigners(mem_, r1, r2) ==
    IF ~r2.ok THEN CTLErr(<<"malformed signers SEQUENCE">>, Max(r1.reach, r2.reach))
    ELSE ctlSequenceNumber(mem_, r1, Max(r1.reach, r2.reach),
                           ReadSequenceNumber(mem_, r2.rest))

\* ctl.go:101-106, after the read of the SEQUENCE
ctlSequence(mem_, r1) ==
    IF ~r1.ok THEN CTLErr(<<"malformed SEQUENCE">>, r1.reach)
    ELSE IF CTLTrailing(r1.rest) THEN CTLErr(<<"trailing bytes after SEQUENCE">>, r1.reach)
    ELSE ctlSigners(mem_, r1, ReadASN1(mem_, r1.body, TagSEQUENCE))

\* ctl.go:98-158. unread counts what the function has not read when it
\* returns: der, bytes of its buffer after the SEQUENCE; body, bytes of the
\* SEQUENCE after the last field read; wrapper, bytes of the [0] block after
\* the extensions SEQUENCE; extension, bytes of extensions after their OCTET
\* STRING; logs, bytes parseCTLogs left unread.
parseCTL(mem_, der) == ctlSequence(mem_, ReadASN1(mem_, der, TagSEQUENCE))

\* ---------------------------------------------------------------- parsePKCS7

P7Err(msg, reach) ==
    [ok |-> FALSE, err |-> <<msg>>, oid |-> <<>>, content |-> [lo |-> 0, hi |-> 0],
     reach |-> reach, unread |-> <<>>]

\* ctl.go:92-95, after the read of the content element
p7Content(oid, reach, unread, content) ==
    IF ~content.ok THEN P7Err("malformed content element", Max(reach, content.reach))
    ELSE [ok |-> TRUE, err |-> <<>>, oid |-> oid.val, content |-> content.elem,
          reach |-> Max(reach, content.reach),
          unread |-> Append(unread, SLen(content.rest))]

\* ctl.go:87-92
p7Sequence5(mem_, oid, reach, unread, r9) ==
    IF ~r9.ok THEN P7Err("malformed SEQUENCE 5", Max(reach, r9.reach))
    ELSE p7Content(oid, Max(reach, r9.reach), Append(unread, SLen(r9.rest)),
                   readASN1(mem_, r9.body))

\* ctl.go:84-87
p7ContentOid(mem_, reach, unread, oid) ==
    IF ~oid.ok THEN P7Err("malformed content OBJECT IDENTIFIER", Max(reach, oid.reach))
    ELSE p7Sequence5(mem_, oid, Max(reach, oid.reach), unread,
                     ReadASN1(mem_, oid.rest, TagContext0))

\* ctl.go:80-84
p7Sequence4(mem_, reach, unread, r7) ==
    IF ~r7.ok THEN P7Err("malformed SEQUENCE 4", Max(reach, r7.reach))
    ELSE p7ContentOid(mem_, Max(reach, r7.reach), Append(unread, SLen(r7.rest)),
                      ReadASN1ObjectIdentifier(mem_, r7.body))

\* ctl.go:77-80
p7Set(mem_, reach, unread, r6) ==
    IF ~r6.ok THEN P7Err("malformed SET", Max(reach, r6.reach))
    ELSE p7Sequence4(mem_, Max(reach, r6.reach), unread,
                     ReadASN1(mem_, r6.rest, TagSEQUENCE))

\* ctl.go:74-77
p7Integer(mem_, reach, unread, r5) ==
    IF ~r5.ok THEN P7Err("malformed INTEGER", Max(reach, r5.reach))
    ELSE p7Set(mem_, Max(reach, r5.reach), unread, ReadASN1(mem_, r5.rest, TagSET))

\* ctl.go:71-74
p7Sequence3(mem_, reach, unread, r4) ==
    IF ~r4.ok THEN P7Err("malformed SEQUENCE 3", Max(reach, r4.reach))
    ELSE p7Integer(mem_, Max(reach, r4.reach), Append(unread, SLen(r4.rest)),
                   ReadASN1(mem_, r4.body, TagINTEGER))

\* ctl.go:68-71
p7Sequence2(mem_, reach, unread, r3) ==
    IF ~r3.ok THEN P7Err("malformed SEQUENCE 2", Max(reach, r3.reach))
    ELSE p7Sequence3(mem_, Max(reach, r3.reach), Append(unread, SLen(r3.rest)),
                     ReadASN1(mem_, r3.body, TagSEQUENCE))

\* ctl.go:65-68
p7Oid(mem_, reach, unread, r2) ==
    IF ~r2.ok THEN P7Err("malformed OBJECT IDENTIFIER", Max(reach, r2.reach))
    ELSE p7Sequence2(mem_, Max(reach, r2.reach), unread,
                     ReadASN1(mem_, r2.rest, TagContext0))

\* ctl.go:62-65
p7Sequence(mem_, r1) ==
    IF ~r1.ok THEN P7Err("malformed SEQUENCE", r1.reach)
    ELSE p7Oid(mem_, r1.reach, <<SLen(r1.rest)>>,
               ReadASN1(mem_, r1.body, TagOBJECT_IDENTIFIER))

\* ctl.go:60-96. Every ReadASN1(&sequence, ...) replaces the cursor by the
\* contents of the element read and drops what followed the element; unread
\* lists the bytes dropped so, outermost first: after the ContentInfo SEQUENCE
\* in der, after the [0] block, after the SignedData SEQUENCE, after the inner
\* contentInfo SEQUENCE, after its [0] block, and after the content element.
parsePKCS7(mem_, der) == p7Sequence(mem_, ReadASN1(mem_, der, TagSEQUENCE))

\* ---------------------------------------------------------- ParseAuthrootstl

P7Unread == <<0, 0, 0, 0, 0, 0>>

\* ctl.go:53-57, after parseCTL(content)
authCTL(p, c) ==
    IF ~c.ok
    THEN [ok |-> FALSE, err |-> <<"error parsing CTL">> \o c.err, ctl |-> NilCTL,
          reach |-> Max(p.reach, c.reach), p7 |-> P7Unread, unread |-> NoUnread]
    ELSE [ok |-> TRUE, err |-> <<>>, ctl |-> c.ctl, reach |-> Max(p.reach, c.reach),
          p7 |-> p.unread, unread |-> c.unread]

\* ctl.go:49-53, after parsePKCS7(der)
authPKCS7(mem_, p) ==
    IF ~p.ok
    THEN [ok |-> FALSE, err |-> <<"error parsing PKCS#7">> \o p.err, ctl |-> NilCTL,
          reach |-> p.reach, p7 |-> P7Unread, unread |-> NoUnread]
    ELSE authCTL(p, parseCTL(mem_, p.content))

\* ctl.go:48-58. The result carries, beside the *CTL and the error, what the
\* two stages read: reach, and the bytes each left unread (p7 and unread).
ParseAuthrootstl(mem_, der) == authPKCS7(mem_, parsePKCS7(mem_, der))

\* ------------------------------------------------- the encoder of the tests
\* A minimal DER encoder, used to build the buffers the decoder is given.

EncLen(n) ==
    IF n < 128 THEN <<n>>
    ELSE IF n < 256 THEN <<129, n>>
    ELSE <<130, n \div 256, n % 256>>

TLV(tag, body) == <<tag>> \o EncLen(Len(body)) \o body

RECURSIVE SubOne(_)
\* b - 1 for a magnitude b > 0, on as many digits as b
SubOne(b) ==
    IF b[Len(b)] = 0 THEN SubOne(SubSeq(b, 1, Len(b) - 1)) \o <<255>>
    ELSE SubSeq(b, 1, Len(b) - 1) \o <<b[Len(b)] - 1>>

\* the shortest two's-complement encoding of v
EncIntegerBody(v) ==
    IF v.mag = <<>> THEN <<0>>
    ELSE IF ~v.neg THEN (IF v.mag[1] >= 128 THEN <<0>> \o v.mag ELSE v.mag)
    ELSE LET c == Invert(SubOne(v.mag))
         IN  IF c[1] < 128 THEN <<255>> \o c ELSE c

EncInteger(v) == TLV(TagINTEGER, EncIntegerBody(v))

RECURSIVE EncBase128(_, _)
EncBase128(n, last) ==
    LET d == (n % 128) + (IF last THEN 0 ELSE 128)
    IN  IF n < 128 THEN <<d>> ELSE EncBase128(n \div 128, FALSE) \o <<d>>

EncOID(arcs) ==
    TLV(TagOBJECT_IDENTIFIER,
        EncBase128(arcs[1] * 40 + arcs[2], TRUE)
        \o Flatten([i \in 1..(Len(arcs) - 2) |-> EncBase128(arcs[i + 2], TRUE)]))

Digits2(n) == <<48 + (n \div 10), 48 + (n % 10)>>

Abs(n) == IF n < 0 THEN -n ELSE n

\* YYMMDDHHMMSS, then Z or the numeric zone
EncUTCTime(t) ==
    TLV(TagUTCTime,
        Digits2(t.year % 100) \o Digits2(t.month) \o Digits2(t.day)
        \o Digits2(t.hour) \o Digits2(t.min) \o Digits2(t.sec)
        \o (IF t.zone = 0 THEN <<90>>
            ELSE <<IF t.zone < 0 THEN 45 ELSE 43>>
                 \o Digits2(Abs(t.zone) \div 60) \o Digits2(Abs(t.zone) % 60)))

\* the value of the CT logs extension: SEQUENCE { SEQUENCE { versions }, logs },
\* followed by tail
EncCTLogs(versions, logs, tail) ==
    TLV(TagSEQUENCE,
        TLV(TagSEQUENCE, Flatten([i \in 1..Len(versions) |-> EncInteger(versions[i])]))
        \o Flatten(logs))
    \o tail

\* one element of the extensions list, as its descriptor e says:
\* "ok" is SEQUENCE { oid, critical BOOLEAN if any, OCTET STRING value, junk };
\* the other forms are malformed.
EncExtension(e) ==
    LET oid == EncOID(e.oid)
        crit == IF e.critical THEN <<TagBOOLEAN, 1, 255>> ELSE <<>>
        val == TLV(TagOCTET_STRING, e.value)
    IN  CASE e.form = "ok" -> TLV(TagSEQUENCE, oid \o crit \o val \o e.junk)
          [] e.form = "set" -> TLV(TagSET, oid \o crit \o val)
          [] e.form = "nooid" -> TLV(TagSEQUENCE, crit \o val)
          [] e.form = "emptyoid" -> TLV(TagSEQUENCE, <<TagOBJECT_IDENTIFIER, 0>> \o val)
          [] e.form = "nooctet" -> TLV(TagSEQUENCE, oid \o crit)

\* the CTL of scenario s: signers, sequence number, effective date, algorithm
\* identifier, entries, the [0] block of extensions if any, then bodyTail; or
\* the bytes rawBody when the scenario gives them. ctlTail follows the CTL.
EncCTL(s) ==
    TLV(TagSEQUENCE,
        IF s.raw THEN s.rawBody
        ELSE TLV(TagSEQUENCE, <<>>)
             \o EncInteger(s.seq)
             \o EncUTCTime(s.date)
             \o TLV(TagSEQUENCE, <<>>)
             \o TLV(TagSEQUENCE, <<>>)
             \o (IF s.hasExts
                 THEN TLV(TagContext0,
                          TLV(TagSEQUENCE,
                              Flatten([i \in 1..Len(s.exts) |-> EncExtension(s.exts[i])])))
                 ELSE <<>>)
             \o s.bodyTail)
    \o s.ctlTail

\* 1.2.840.113549.1.7.2, pkcs7-signedData
OidSignedData == <<1, 2, 840, 113549, 1, 7, 2>>

\* 1.3.6.1.4.1.311.10.1, szOID_CTL
OidCTL == <<1, 3, 6, 1, 4, 1, 311, 10, 1>>

\* the PKCS#7 envelope of scenario s: ContentInfo { signedData, [0] SignedData {
\* version 1, digestAlgorithms {}, contentInfo { szOID_CTL, [0] { CTL } },
\* signerInfos } }, followed by envTail
EncPKCS7(s) ==
    TLV(TagSEQUENCE,
        EncOID(OidSignedData)
        \o TLV(TagContext0,
               TLV(TagSEQUENCE,
                   EncInteger([neg |-> FALSE, mag |-> <<1>>])
                   \o TLV(TagSET, <<>>)
                   \o TLV(TagSEQUENCE, EncOID(OidCTL) \o TLV(TagContext0, EncCTL(s)))
                   \o s.signerInfos)))
    \o s.envTail

\* ---------------------------------------------------------------- the inputs

\* the longest list of version integers, of logs and of extensions encoded
MaxVersions == 2
MaxLogs == 2
MaxExts == 2

SeqsUpTo(S, n) == UNION {[1..k -> S] : k \in 0..n}

BigPos(bytes) == [neg |-> FALSE, mag |-> bytes]
BigNeg(bytes) == [neg |-> TRUE, mag |-> bytes]

\* 0, 1, 128, 2^64 + 1, 2^72 - 1 and -129
SeqNums ==
    {Zero, BigPos(<<1>>), BigPos(<<128>>), BigPos(<<1, 0, 0, 0, 0, 0, 0, 0, 1>>),
     BigPos(<<255, 255, 255, 255, 255, 255, 255, 255, 255>>), BigNeg(<<129>>)}

Date(y, mo, d, h, mi, s, z) ==
    [year |-> y, month |-> mo, day |-> d, hour |-> h, min |-> mi, sec |-> s, zone |-> z]

\* the first and the last instant a UTCTime can name, both sides of the pivot
\* of time.Parse (1969), a leap day, and a time with a numeric zone
Dates ==
    {Date(1950, 1, 1, 0, 0, 0, 0), Date(2049, 12, 31, 23, 59, 59, 0),
     Date(1968, 2, 29, 12, 0, 0, 0), Date(1969, 7, 20, 20, 17, 40, 0),
     Date(2025, 6, 30, 8, 15, 0, 330)}

\* 1, 2^31 - 1 and -2^31, the ends of the int32 range
VersionsIn == {BigPos(<<1>>), BigPos(<<127, 255, 255, 255>>), BigNeg(<<128, 0, 0, 0>>)}

\* 2^31, -2^31 - 1 and 2^64: the first values outside it, and one outside int64
VersionsOut ==
    {BigPos(<<128, 0, 0, 0>>), BigNeg(<<128, 0, 0, 1>>), BigPos(<<1, 0, 0, 0, 0, 0, 0, 0, 0>>)}

SpkiA == TLV(TagSEQUENCE, <<5, 0>>)
SpkiB == TLV(TagSEQUENCE, TLV(TagSEQUENCE, <<>>) \o <<3, 1, 0>>)
LogPool == {SpkiA, SpkiB}

\* 1.3.6.1.4.1.311.10.11.9, an extension the decoder does not know
OidOther == <<1, 3, 6, 1, 4, 1, 311, 10, 11, 9>>

\* a CT logs extension
CTExt(versions, logs) ==
    [oid |-> OidCTLogs, critical |-> FALSE, ct |-> TRUE,
     versions |-> versions, logs |-> logs,
     value |-> EncCTLogs(versions, logs, <<>>), junk |-> <<>>, form |-> "ok"]

\* an extension with another OID and the value v
OtherExt(v) ==
    [oid |-> OidOther, critical |-> FALSE, ct |-> FALSE,
     versions |-> <<>>, logs |-> <<>>, value |-> v, junk |-> <<>>, form |-> "ok"]

ExtA == CTExt(<<BigPos(<<1>>)>>, <<SpkiA>>)
ExtB == [CTExt(<<BigPos(<<2>>), BigPos(<<3>>)>>, <<SpkiB, SpkiB>>) EXCEPT !.critical = TRUE]

\* Well-formed extensions, an extension with bytes after its OCTET STRING, and
\* malformed ones: a SET, a missing OCTET STRING, a CT logs value with a byte
\* after its SEQUENCE.
ExtPool ==
    {ExtA, ExtB, OtherExt(<<4, 0>>),
     [OtherExt(<<>>) EXCEPT !.junk = <<5, 0>>],
     [ExtA EXCEPT !.form = "set"],
     [OtherExt(<<>>) EXCEPT !.form = "nooctet"],
     [ExtA EXCEPT !.value = EncCTLogs(<<BigPos(<<1>>)>>, <<SpkiA>>, <<0>>)]}

\* further malformed extensions, tried alone and after a CT logs extension
ExtOdd ==
    {[ExtA EXCEPT !.junk = <<5, 0>>],
     [OtherExt(<<>>) EXCEPT !.form = "nooid"],
     [OtherExt(<<>>) EXCEPT !.form = "emptyoid"],
     [ExtA EXCEPT !.value = <<TagSEQUENCE, 0>>],
     [ExtA EXCEPT !.value = TLV(TagSEQUENCE, TLV(TagSEQUENCE, <<>>) \o <<5, 0>>)]}

Base ==
    [seq |-> BigPos(<<1>>), date |-> Date(2025, 1, 2, 3, 4, 5, 0),
     hasExts |-> TRUE, exts |-> <<ExtA>>,
     bodyTail |-> <<>>, ctlTail |-> <<>>, signerInfos |-> <<>>, envTail |-> <<>>,
     raw |-> FALSE, rawBody |-> <<>>]

\* every sequence number and date, with one CT logs extension
Tuples == {[Base EXCEPT !.seq = n, !.date = d] : n \in SeqNums, d \in Dates}

\* every list of versions, and every list of logs, in one CT logs extension
Lists ==
    {[Base EXCEPT !.exts = <<CTExt(v, <<SpkiA>>)>>] :
        v \in SeqsUpTo(VersionsIn \cup VersionsOut, MaxVersions)}
    \cup {[Base EXCEPT !.exts = <<CTExt(<<BigPos(<<1>>)>>, l)>>] : l \in SeqsUpTo(LogPool, MaxLogs)}

\* every list of extensions, and no [0] block at all
Layouts ==
    {[Base EXCEPT !.exts = x] : x \in SeqsUpTo(ExtPool, MaxExts)}
    \cup {[Base EXCEPT !.exts = <<o>>] : o \in ExtOdd}
    \cup {[Base EXCEPT !.exts = <<ExtB, o>>] : o \in ExtOdd}
    \cup {[Base EXCEPT !.hasExts = FALSE, !.exts = <<>>]}

\* bytes the decoder is not asked to read: after the extensions in the CTL,
\* after the CTL in its [0] block, the signerInfos SET of the SignedData, and
\* after the envelope
Slack ==
    {[Base EXCEPT !.hasExts = h, !.bodyTail = b, !.ctlTail = c,
                  !.signerInfos = g, !.envTail = e] :
        h \in BOOLEAN, b \in {<<>>, <<5, 0>>}, c \in {<<>>, <<0>>},
        g \in {<<>>, <<TagSET, 0>>}, e \in {<<>>, <<0>>, <<0, 0>>}}

\* CTL bodies that are no CTL
RawBodies == {<<>>, <<255>>, TLV(TagSEQUENCE, <<>>) \o <<TagINTEGER, 0>>}

\* the buffers given to ParseAuthrootstl
Envelopes == Tuples \cup Lists \cup Layouts \cup Slack

\* the buffers given to parseCTL: a CTL, alone or followed by bytes
BareCTLs ==
    {[s EXCEPT !.ctlTail = c] :
        s \in {[Base EXCEPT !.exts = x] : x \in SeqsUpTo({ExtA, OtherExt(<<4, 0>>)}, MaxExts)}
              \cup {[Base EXCEPT !.hasExts = FALSE, !.exts = <<>>, !.bodyTail = b] :
                       b \in {<<>>, <<5, 0>>}}
              \cup {[Base EXCEPT !.raw = TRUE, !.rawBody = r] : r \in RawBodies},
        c \in {<<>>, <<0>>, <<TagSEQUENCE, 0>>}}

\* ---------------------------------------------------------------- the callers

\* the whole of a buffer
Whole(mem_) == [lo |-> 0, hi |-> Len(mem_)]

NoResult ==
    [done |-> FALSE, ok |-> FALSE, err |-> <<>>, ctl |-> NilCTL, reach |-> 0,
     p7 |-> P7Unread, unread |-> NoUnread]

Returned(r) ==
    [done |-> TRUE, ok |-> r.ok, err |-> r.err, ctl |-> r.ctl, reach |-> r.reach,
     p7 |-> r.p7, unread |-> r.unread]

Init ==
    /\ \E s \in Envelopes \cup BareCTLs :
         \/ s \in Envelopes /\ src = s /\ entry = "pkcs7" /\ mem = EncPKCS7(s)
         \/ s \in BareCTLs /\ src = s /\ entry = "ctl" /\ mem = EncCTL(s)
    /\ whole = NoResult
    /\ cut = -1
    /\ part = NoResult
    /\ reused = FALSE

\* a caller decodes the buffer: ParseAuthrootstl(der)
DecodeWhole ==
    /\ entry = "pkcs7"
    /\ ~whole.done
    /\ whole' = Returned(ParseAuthrootstl(mem, Whole(mem)))
    /\ UNCHANGED <<mem, entry, src, cut, part, reused>>

\* a caller decodes the first k bytes of the buffer: ParseAuthrootstl(der[:k])
DecodePrefix(k) ==
    /\ entry = "pkcs7"
    /\ whole.done
    /\ ~reused
    /\ ~part.done
    /\ cut' = k
    /\ part' = Returned(ParseAuthrootstl(mem, [lo |-> 0, hi |-> k]))
    /\ UNCHANGED <<mem, entry, src, whole, reused>>

\* a caller inside the package decodes a CTL: parseCTL(der)
DecodeCTL ==
    /\ entry = "ctl"
    /\ ~whole.done
    /\ whole' = Returned(parseCTL(mem, Whole(mem)) @@ [p7 |-> P7Unread])
    /\ UNCHANGED <<mem, entry, src, cut, part, reused>>

\* The caller keeps the CTL it got, drops the results of the prefixes and
\* uses the buffer again: every byte of it is overwritten.
ReuseBuffer ==
    /\ whole.done
    /\ ~reused
    /\ mem' = [i \in 1..Len(mem) |-> 255 - mem[i]]
    /\ reused' = TRUE
    /\ cut' = -1
    /\ part' = NoResult
    /\ UNCHANGED <<entry, src, whole>>

Next ==
    \/ DecodeWhole
    \/ \E k \in 0..(Len(mem) - 1) : DecodePrefix(k)
    \/ DecodeCTL
    \/ ReuseBuffer

Spec == Init /\ [][Next]_vars

\* ---------------------------------------------------------------- the claims

\* the bytes of the logs of a CTL, read through its slices in the buffer m
CTLogsBytes(m, ctl) == [i \in 1..Len(ctl.CTLogs) |-> Bytes(m, ctl.CTLogs[i])]

\* v lies in [-2^31, 2^31 - 1]
InInt32(v) ==
    \/ Len(v.mag) < 4
    \/ Len(v.mag) = 4 /\ (v.mag[1] < 128 \/ (v.neg /\ v.mag = <<128, 0, 0, 0>>))

\* the places of the CT logs extensions in the extensions encoded
CTPlaces(s) == {i \in 1..Len(s.exts) : s.hasExts /\ s.exts[i].ct}

\* the versions and the logs encoded in the last CT logs extension, if any
SrcVersions(s) == IF CTPlaces(s) = {} THEN <<>> ELSE s.exts[MaxOf(CTPlaces(s))].versions
SrcLogs(s) == IF CTPlaces(s) = {} THEN <<>> ELSE s.exts[MaxOf(CTPlaces(s))].logs

\* the extension is SEQUENCE { OID, optional BOOLEAN, OCTET STRING } and no more
ExactExtension(e) == e.form = "ok" /\ e.junk = <<>>

\* the buffer is the plain encoding of a tuple: one CT logs extension with
\* versions of 32 bits, and nothing the decoder is not asked to read
PlainTuple(s) ==
    /\ ~s.raw /\ s.hasExts /\ Len(s.exts) = 1
    /\ s.exts[1] = CTExt(s.exts[1].versions, s.exts[1].logs)
    /\ \A i \in 1..Len(s.exts[1].versions) : InInt32(s.exts[1].versions[i])
    /\ s.bodyTail = <<>> /\ s.ctlTail = <<>> /\ s.signerInfos = <<>> /\ s.envTail = <<>>

\* the length of the ContentInfo SEQUENCE element at the start of the buffer,
\* known once the whole buffer has been decoded
OuterLen == Len(mem) - whole.p7[1]

\* C1 as stated: every proper prefix of an input that decodes fails to decode.
C1_EveryPrefixFails ==
    (entry = "pkcs7" /\ whole.ok /\ part.done /\ cut < Len(mem)) => ~part.ok

\* C1, amended: when the whole input decodes, a prefix that ends before the end
\* of the ContentInfo SEQUENCE element at the start of the input fails to
\* decode, with an error and a nil CTL, and no read of any prefix reaches a
\* byte at or beyond its end.
C1_TruncatedFails ==
    (entry = "pkcs7" /\ whole.ok /\ part.done) =>
        /\ part.reach <= cut
        /\ cut < OuterLen =>
             /\ ~part.ok
             /\ part.ctl = NilCTL
             /\ part.err = <<"error parsing PKCS#7", "malformed SEQUENCE">>

C1_Witness ==
    /\ entry = "pkcs7" /\ whole.ok /\ part.done /\ ~part.ok
    /\ cut = OuterLen - 1 /\ OuterLen > 128 /\ part.reach > 1

\* C2: the decode of the plain encoding of a tuple succeeds and returns the
\* sequence number, the date, the versions and the logs of the tuple.
C2_RoundTrip ==
    (entry = "pkcs7" /\ whole.done /\ ~reused /\ PlainTuple(src)) =>
        /\ whole.ok
        /\ whole.ctl.SequenceNumber = src.seq
        /\ whole.ctl.EffectiveDate = src.date
        /\ whole.ctl.CTLogsVersion = src.exts[1].versions
        /\ CTLogsBytes(mem, whole.ctl) = src.exts[1].logs

C2_Witness ==
    /\ entry = "pkcs7" /\ whole.ok /\ ~reused /\ PlainTuple(src)
    /\ Len(src.seq.mag) > 8
    /\ src.date.year < 1969
    /\ whole.ctl.SequenceNumber = src.seq
    /\ whole.ctl.EffectiveDate = src.date

\* C3: a well-formed CTL without a CT logs extension, its [0] block absent or
\* holding other extensions only, decodes to a CTL with no logs and no
\* versions, and with the sequence number and the date of the input.
C3_NoCTLogsExtension ==
    (/\ whole.done /\ ~src.raw /\ src.bodyTail = <<>>
     /\ entry = "ctl" => src.ctlTail = <<>>
     /\ CTPlaces(src) = {}
     /\ \A i \in 1..Len(src.exts) : ExactExtension(src.exts[i])) =>
        /\ whole.ok
        /\ whole.ctl.CTLogs = <<>>
        /\ whole.ctl.CTLogsVersion = <<>>
        /\ whole.ctl.SequenceNumber = src.seq
        /\ whole.ctl.EffectiveDate = src.date

C3_Witness ==
    /\ whole.ok /\ src.hasExts /\ Len(src.exts) = 2 /\ CTPlaces(src) = {}
    /\ whole.ctl.CTLogs = <<>> /\ whole.ctl.SequenceNumber = src.seq

\* C4: parseCTL on a buffer where bytes follow the CTL's SEQUENCE returns the
\* error "trailing bytes after SEQUENCE" and a nil CTL, whatever the SEQUENCE holds.
C4_TrailingBytes ==
    (entry = "ctl" /\ whole.done /\ src.ctlTail # <<>>) =>
        /\ ~whole.ok
        /\ whole.err = <<"trailing bytes after SEQUENCE">>
        /\ whole.ctl = NilCTL

C4_Witness ==
    /\ entry = "ctl" /\ whole.done /\ ~src.raw /\ src.ctlTail = <<0>>
    /\ whole.err = <<"trailing bytes after SEQUENCE">>

\* C5: after a successful decode every log is one whole SEQUENCE element (tag
\* 0x30, a length, and as many bytes as the length says), the logs lie one
\* after the other in the buffer, and they are the elements encoded after the
\* version SEQUENCE of the CT logs extension, in order, duplicates kept.
C5_WholeElements ==
    (whole.done /\ whole.ok /\ ~reused) =>
        /\ \A i \in 1..Len(whole.ctl.CTLogs) :
              /\ At(mem, whole.ctl.CTLogs[i], 0) = TagSEQUENCE
              /\ readASN1(mem, whole.ctl.CTLogs[i]).ok
              /\ readASN1(mem, whole.ctl.CTLogs[i]).elem = whole.ctl.CTLogs[i]
        /\ \A i \in 1..(Len(whole.ctl.CTLogs) - 1) :
              whole.ctl.CTLogs[i + 1].lo = whole.ctl.CTLogs[i].hi
        /\ CTLogsBytes(mem, whole.ctl) = SrcLogs(src)

C5_Witness ==
    /\ whole.ok /\ ~reused /\ Len(whole.ctl.CTLogs) = 2
    /\ CTLogsBytes(mem, whole.ctl) = <<SpkiB, SpkiB>>

\* C6 as stated: the logs of the CTL returned are copies, so that overwriting
\* the input buffer after the call leaves them as they were.
C6_OwnedCopies ==
    [][(whole.done /\ whole.ok /\ whole' = whole) =>
          CTLogsBytes(mem', whole'.ctl) = CTLogsBytes(mem, whole.ctl)]_vars

\* C7: a version outside [-2^31, 2^31 - 1] in a CT logs extension fails the
\* decode, with a nil CTL; the versions inside it are returned as encoded.
C7_VersionRange ==
    whole.done =>
        /\ (\E p \in CTPlaces(src) :
               /\ src.exts[p] = CTExt(src.exts[p].versions, src.exts[p].logs)
               /\ \E i \in 1..Len(src.exts[p].versions) :
                     ~InInt32(src.exts[p].versions[i]))
           => (~whole.ok /\ whole.ctl = NilCTL)
        /\ (PlainTuple(src) /\ src.ctlTail = <<>>)
           => (whole.ok /\ whole.ctl.CTLogsVersion = src.exts[1].versions)

C7_Witness ==
    /\ whole.done /\ ~whole.ok
    /\ Len(src.exts) = 1 /\ src.exts[1].ct
    /\ src.exts[1].versions = <<BigPos(<<127, 255, 255, 255>>), BigPos(<<128, 0, 0, 0>>)>>
    /\ whole.err = <<"error parsing CTL", "error parsing CT logs extension",
                     "version SEQUENCE contains malformed INTEGER">>

\* C8 as stated: when ParseAuthrootstl succeeds, parsePKCS7 has left no byte
\* unread in its buffer nor in a wrapper it entered, and parseCTL none in the
\* CTL body nor in an extension.
C8_NothingUnread ==
    (entry = "pkcs7" /\ whole.ok) =>
        /\ \A i \in 1..Len(whole.p7) : whole.p7[i] = 0
        /\ whole.unread.body = 0
        /\ whole.unread.wrapper = 0
        /\ whole.unread.extension = 0

\* C8, amended: when ParseAuthrootstl succeeds, parseCTL has left no byte
\* unread after the CTL's SEQUENCE in the buffer it was given, and parseCTLogs
\* none after the SEQUENCE of an extension value it was given.
C8_BuffersConsumed ==
    (entry = "pkcs7" /\ whole.ok) =>
        /\ whole.unread.der = 0
        /\ whole.unread.logs = 0

C8_Witness ==
    /\ entry = "pkcs7" /\ whole.ok /\ Len(whole.ctl.CTLogs) > 0
    /\ whole.p7[1] > 0 /\ whole.p7[4] > 0 /\ whole.p7[6] > 0
    /\ whole.unread.body > 0

\* C9 as stated: an element of the extensions list that is not exactly a
\* SEQUENCE of OBJECT IDENTIFIER, optional BOOLEAN and OCTET STRING fails the
\* decode.
C9_MalformedExtensionFails ==
    (/\ whole.done /\ ~src.raw /\ src.hasExts
     /\ \E i \in 1..Len(src.exts) : ~ExactExtension(src.exts[i])) => ~whole.ok

\* C10: when several CT logs extensions decode, the versions and the logs
\* returned are those of the last one.
C10_LastWins ==
    (whole.done /\ whole.ok /\ ~reused /\ Cardinality(CTPlaces(src)) > 1) =>
        /\ whole.ctl.CTLogsVersion = SrcVersions(src)
        /\ CTLogsBytes(mem, whole.ctl) = SrcLogs(src)

C10_Witness ==
    /\ whole.ok /\ ~reused /\ src.exts = <<ExtA, ExtB>>
    /\ whole.ctl.CTLogsVersion = ExtB.versions
    /\ Len(whole.ctl.CTLogs) = 2

====
